---------------------------- MODULE Spec2Model ----------------------------
(***************************************************************************)
(* Shortest-path searches of Chapter5.ipynb (Selected Topics in            *)
(* Mathematical Optimization, chapter 5): Dijkstra's algorithm, the path   *)
(* reconstruction, A* and the distance-to-the-nearest-park search.         *)
(*                                                                         *)
(* A graph is the notebook's adjacency dict: a function from each vertex   *)
(* to its set of (weight, target) pairs, every vertex being a key (as 'I'  *)
(* is in the example graph).  A search is one call, stepped one iteration  *)
(* of its main loop at a time; the queue hands out any of its entries of   *)
(* smallest priority and the neighbours of a node are visited in any       *)
(* order, as the pseudocode fixes neither.  A second search over the same  *)
(* graph may wait for its turn, and the heap operations of the priority    *)
(* queue section work on a list of their own, as do top_k_sorted and       *)
(* top_k_heaped, stepped one e-mail at a time.                             *)
(***************************************************************************)
EXTENDS Integers, Sequences, FiniteSets, TLC

VARIABLES graph, kind, source, sink, heuristic, park_vertices,
          distance, previous, Q, pc, ret, other, heap, stats,
          emails, top_set, position

\* other: a second search over the same graph, waiting for its turn to run;
\* heap: the list the heapq operations keep the heap property on;
\* stats: what the running search has done so far (entries inserted into Q,
\* successful relaxations, nodes expanded from a fresh entry), kept for the
\* searches of SpecPath;
\* emails: the list of e-mails top_k_sorted and top_k_heaped read,
\* top_set: their list of retained e-mails, and position: the number of
\* e-mails their loop has read
vars == <<graph, kind, source, sink, heuristic, park_vertices,
          distance, previous, Q, pc, ret, other, heap, stats,
          emails, top_set, position>>

(***************************************************************************)
(* Bounds of the model.                                                    *)
(***************************************************************************)
\* the vertices of the generated graphs
Nodes == {"A", "B", "C"}
\* a node that is no vertex of any generated graph
Absent == "Z"
\* the edge weights of the generated graphs
Weights == {0, 1, 2}
\* a generated graph has at most MaxEdges edges (parallel edges count)
MaxEdges == 3
\* heuristic estimates are 0..MaxH
MaxH == 2

\* the heap of the queue model holds at most MaxHeap entries
MaxHeap == 4
\* with priorities 0..MaxPriority
MaxPriority == 2
\* for these nodes
HeapNodes == {"A", "B"}
\* the list of e-mails holds at most MaxMails e-mails
MaxMails == 3
\* of importance 0..MaxImportance
MaxImportance == 2
\* and top_k_sorted(k), top_k_heaped(k) are called with k in 1..MaxK
MaxK == 2

\* sink=None
None == "None"
\* the id -1 of the entries top_set starts with: before the id of every
\* e-mail
NoId == "-1"
\* the source the reversed search of compute_distances_to_park starts from
Virtual == "park"
\* numpy's inf: above every path length and every priority of the model
Inf == 1000000

(***************************************************************************)
(* Graphs.                                                                 *)
(***************************************************************************)
\* every edge (u, w, v) a generated graph may hold, parallel edges of
\* different weights included; no self-loops, which never improve a distance
AllEdges == {e \in Nodes \X Weights \X Nodes : e[1] # e[3]}

RECURSIVE EdgeSets(_)
EdgeSets(k) ==
    IF k = 0 THEN {{}}
    ELSE LET P == EdgeSets(k - 1)
         IN  P \cup {S \cup {e} : S \in P, e \in AllEdges}

\* the adjacency dict of a set of edges: vertex -> set of (weight, target)
GraphOf(V, E) == [u \in V |-> {<<e[2], e[3]>> : e \in {x \in E : x[1] = u}}]

Graphs == {GraphOf(Nodes, E) : E \in EdgeSets(MaxEdges)}

\* the example graph of Assignment 1
ExampleGraph ==
    [u \in {"A", "B", "C", "D", "E", "F", "G", "H", "I"} |->
        CASE u = "A" -> {<<2, "B">>, <<3, "D">>}
          [] u = "B" -> {<<1, "C">>, <<5, "E">>}
          [] u = "C" -> {<<2, "D">>, <<1, "E">>}
          [] u = "D" -> {<<3, "E">>}
          [] u = "E" -> {<<2, "B">>, <<3, "F">>}
          [] u = "F" -> {<<5, "G">>, <<8, "I">>}
          [] u = "G" -> {<<2, "H">>, <<5, "I">>}
          [] u = "H" -> {<<3, "I">>}
          [] u = "I" -> {}]

\* the line A -> B -> C -> D -> E, every edge of weight 1
LineGraph ==
    [u \in {"A", "B", "C", "D", "E"} |->
        CASE u = "A" -> {<<1, "B">>}
          [] u = "B" -> {<<1, "C">>}
          [] u = "C" -> {<<1, "D">>}
          [] u = "D" -> {<<1, "E">>}
          [] u = "E" -> {}]

\* the generated graphs with one more edge, into a node that is no key of
\* the dict
DanglingGraphs ==
    {GraphOf(Nodes, E \cup {d}) :
        E \in EdgeSets(MaxEdges - 1), d \in Nodes \X Weights \X {Absent}}

\* two paths of the same length from A to D, over B and over C
DiamondGraph ==
    [u \in {"A", "B", "C", "D"} |->
        CASE u = "A" -> {<<1, "B">>, <<1, "C">>}
          [] u = "B" -> {<<1, "D">>}
          [] u = "C" -> {<<1, "D">>}
          [] u = "D" -> {}]

\* B has the direct edge from A and the shorter way over C, and leads to D
ReopenGraph ==
    [u \in {"A", "B", "C", "D"} |->
        CASE u = "A" -> {<<2, "B">>, <<0, "C">>}
          [] u = "B" -> {<<0, "D">>}
          [] u = "C" -> {<<0, "B">>}
          [] u = "D" -> {}]

\* "for every neighbor V of U": the (weight, target) pairs leaving U
Neighbors(g, U) == IF U \in DOMAIN g THEN g[U] ELSE {}

(***************************************************************************)
(* The relaxation loop.  A search state is a record                        *)
(* [distance, previous, Q]: the two dicts and the priority queue, a set of *)
(* (priority, node) entries.  An entry is added only for a strictly        *)
(* smaller distance of its node, so no entry is ever added twice and the   *)
(* set is the queue's multiset.                                            *)
(***************************************************************************)
EmptyDict == [x \in {} |-> x]

\* DijkstraInit with the source set to infinity with the other vertices
DijkstraInitAllInfinite(g, s) ==
    [distance |-> [V \in DOMAIN g \cup {s} |-> Inf],
     previous |-> EmptyDict,
     Q        |-> {<<0, s>>}]

\* Dijkstra lines 2-11: distance 0 for the source, infinity for every other
\* vertex, no previous node, the source queued with priority 0
DijkstraInit(g, s) ==
    [distance |-> [V \in DOMAIN g \cup {s} |-> IF V = s THEN 0 ELSE Inf],
     previous |-> EmptyDict,
     Q        |-> {<<0, s>>}]

\* A* lines 2-9: the source queued with priority f(source), a distance dict
\* holding the source alone
AstarInit(s, h) ==
    [distance |-> (s :> 0),
     previous |-> EmptyDict,
     Q        |-> {<<0 + h[s], s>>}]

\* DijkstraImproves that takes a node's first distance only
DijkstraImprovesUnvisited(dist, V, alternative) == dist[V] = Inf

\* DijkstraImproves that takes an equal distance for an improvement
DijkstraImprovesOrEqual(dist, V, alternative) == alternative <= dist[V]

\* Dijkstra line 18: "if alternative < distance[V]"
DijkstraImproves(dist, V, alternative) == alternative < dist[V]

\* AstarImproves that takes a node's first distance only
AstarImprovesUnvisited(dist, V, alternative) == V \notin DOMAIN dist

\* A* line 17: "if V not in distance or distance_source_U < distance[V]"
AstarImproves(dist, V, alternative) ==
    V \notin DOMAIN dist \/ alternative < dist[V]

\* the priority an improved node is queued with: its distance (Dijkstra line
\* 21), its distance plus the heuristic (A* lines 20-21)
Priority(k, h, V, d) == IF k = "a_star" THEN d + h[V] ELSE d

\* Relax that does not queue the improved node
RelaxWithoutQueue(st, k, h, U, edge) ==
    LET V == edge[2]
        alternative == st.distance[U] + edge[1]
        better == IF k = "a_star"
                  THEN AstarImproves(st.distance, V, alternative)
                  ELSE DijkstraImproves(st.distance, V, alternative)
    IN  IF better
        THEN [distance |-> (V :> alternative) @@ st.distance,
              previous |-> (V :> U) @@ st.previous,
              Q        |-> st.Q]
        ELSE st

\* Relax that keeps the previous node a node already has
RelaxKeepsPrevious(st, k, h, U, edge) ==
    LET V == edge[2]
        alternative == st.distance[U] + edge[1]
        better == IF k = "a_star"
                  THEN AstarImproves(st.distance, V, alternative)
                  ELSE DijkstraImproves(st.distance, V, alternative)
    IN  IF better
        THEN [distance |-> (V :> alternative) @@ st.distance,
              previous |-> st.previous @@ (V :> U),
              Q        |-> st.Q \cup {<<Priority(k, h, V, alternative), V>>}]
        ELSE st

\* Relax whose alternative is the weight of the edge alone
RelaxEdgeWeight(st, k, h, U, edge) ==
    LET V == edge[2]
        alternative == edge[1]
        better == IF k = "a_star"
                  THEN AstarImproves(st.distance, V, alternative)
                  ELSE DijkstraImproves(st.distance, V, alternative)
    IN  IF better
        THEN [distance |-> (V :> alternative) @@ st.distance,
              previous |-> (V :> U) @@ st.previous,
              Q        |-> st.Q \cup {<<Priority(k, h, V, alternative), V>>}]
        ELSE st

\* the body of the inner loop for one neighbour (w, V) of U
Relax(st, k, h, U, edge) ==
    LET V == edge[2]
        alternative == st.distance[U] + edge[1]
        better == IF k = "a_star"
                  THEN AstarImproves(st.distance, V, alternative)
                  ELSE DijkstraImproves(st.distance, V, alternative)
    IN  IF better
        THEN [distance |-> (V :> alternative) @@ st.distance,
              previous |-> (V :> U) @@ st.previous,
              Q        |-> st.Q \cup {<<Priority(k, h, V, alternative), V>>}]
        ELSE st

\* Dijkstra line 18 reads distance[V]: a KeyError when a neighbour V has no
\* entry in the dict, which lines 2-6 fill for the source and the keys of the
\* graph only; A* tests "V not in distance" first
MissingDistance(k, dist, nbrs) ==
    k # "a_star" /\ \E e \in nbrs : e[2] \notin DOMAIN dist

\* "for every neighbor V of U", the neighbours taken in the given order
RECURSIVE RelaxAll(_, _, _, _, _)
RelaxAll(st, k, h, U, order) ==
    IF order = <<>> THEN st
    ELSE RelaxAll(Relax(st, k, h, U, Head(order)), k, h, U, Tail(order))

\* the number of neighbours in the order whose relaxation succeeds ("if
\* alternative < distance[V]" taken: distance[V] is assigned)
RECURSIVE Relaxations(_, _, _, _, _)
Relaxations(st, k, h, U, order) ==
    IF order = <<>> THEN 0
    ELSE LET new == Relax(st, k, h, U, Head(order))
         IN  (IF new.distance # st.distance THEN 1 ELSE 0)
             + Relaxations(new, k, h, U, Tail(order))

\* the number of neighbours in the order for which an entry is added to Q
RECURSIVE Insertions(_, _, _, _, _)
Insertions(st, k, h, U, order) ==
    IF order = <<>> THEN 0
    ELSE LET new == Relax(st, k, h, U, Head(order))
         IN  (IF new.Q # st.Q THEN 1 ELSE 0)
             + Insertions(new, k, h, U, Tail(order))

\* an entry of the queue is stale when its priority is no longer the one of
\* its node's recorded distance
Stale(k, h, dist, e) ==
    e[2] \notin DOMAIN dist \/ e[1] # Priority(k, h, e[2], dist[e[2]])

\* nothing done yet, and no statistics kept
NoStats == [kept |-> FALSE, inserted |-> 0, relaxations |-> 0, accepted |-> {}]

\* nothing done yet, statistics kept
KeptStats == [NoStats EXCEPT !.kept = TRUE]

\* the statistics of a search that starts with the entries q in its queue
StartStats(s, q) ==
    IF s.kept THEN [KeptStats EXCEPT !.inserted = Cardinality(q)] ELSE NoStats

\* the statistics after the entry e was popped and its node expanded, its
\* neighbours relaxed in the given order from the search state st;
\* accepted holds (node, distance) for every expansion from a fresh entry
Expanded(s, st, k, h, e, order) ==
    IF ~s.kept THEN s
    ELSE [kept        |-> TRUE,
          inserted    |-> s.inserted + Insertions(st, k, h, e[2], order),
          relaxations |-> s.relaxations + Relaxations(st, k, h, e[2], order),
          accepted    |-> IF Stale(k, h, st.distance, e) THEN s.accepted
                          ELSE s.accepted \cup {<<e[2], st.distance[e[2]]>>}]

\* the orders a set can be iterated in
Orders(S) ==
    {f \in [1..Cardinality(S) -> S] : \A i, j \in DOMAIN f : f[i] = f[j] => i = j}

\* MinEntries of a queue that hands out any entry
AnyEntries(q) == q

\* "get node U with smallest distance from Q": the entries a pop may return
MinEntries(q) == {e \in q : \A f \in q : e[1] <= f[1]}

\* "if U is the sink: break the loop"; the search for the nearest park stops
\* at a park vertex instead, a full run never stops early
Stops(k, t, parks, U) ==
    CASE k = "dijkstra" -> t # None /\ U = t
      [] k = "a_star"   -> U = t
      [] k = "nearest"  -> U \in parks
      [] OTHER          -> FALSE

(***************************************************************************)
(* Path reconstruction.                                                    *)
(***************************************************************************)
\* pseudocode lines 4-9: walk the previous links back from the sink until
\* the source, adding each node in front.  A missing link is a KeyError; a
\* walk longer than the dict has entries repeats a node and never ends.
RECURSIVE WalkBack(_, _, _, _, _)
WalkBack(came_from, s, V, path, steps) ==
    IF V = s THEN [status |-> "ok", path |-> path]
    ELSE IF V \notin DOMAIN came_from THEN [status |-> "KeyError", path |-> path]
    ELSE IF steps > Cardinality(DOMAIN came_from) THEN [status |-> "loops", path |-> path]
    ELSE WalkBack(came_from, s, came_from[V], <<came_from[V]>> \o path, steps + 1)

\* reconstruct_path: the empty list when the sink has no previous node (the
\* test of the Python function; the pseudocode's line 2 tests the source),
\* else the walk back from the sink
reconstruct_path(came_from, s, t) ==
    IF t \notin DOMAIN came_from
    THEN [status |-> "ok", path |-> <<>>]
    ELSE WalkBack(came_from, s, t, <<t>>, 1)

(***************************************************************************)
(* The distance to the nearest park: Dijkstra from a virtual source joined *)
(* to every park vertex by a zero-weight edge, over the reversed edges     *)
(* with their own weights.                                                 *)
(***************************************************************************)
\* the city graph with every edge reversed
Reversed(g) ==
    [u \in DOMAIN g |->
        UNION {{<<e[1], v>> : e \in {x \in g[v] : x[2] = u}} : v \in DOMAIN g}]

\* the reversed graph with the virtual source added
ParkGraph(g, parks) ==
    LET r == Reversed(g)
    IN  [u \in DOMAIN g \cup {Virtual} |->
            IF u = Virtual THEN {<<0, p>> : p \in parks} ELSE r[u]]

\* the direct search: every park vertex starts at distance 0 and in the queue
MultiInit(g, parks) ==
    [distance |-> [V \in DOMAIN g |-> IF V \in parks THEN 0 ELSE Inf],
     previous |-> EmptyDict,
     Q        |-> {<<0, p>> : p \in parks}]

\* the graph a search of kind k walks
SearchGraph(g, k, parks) ==
    CASE k = "to_park"        -> ParkGraph(g, parks)
      [] k = "multi_reversed" -> Reversed(g)
      [] OTHER                -> g

\* what compute_distances_to_park returns: the distances without the virtual
\* source, and for every vertex reached through an edge its next vertex
ParkResult(dist, prev) ==
    <<[v \in DOMAIN dist \ {Virtual} |-> dist[v]],
      [v \in {x \in DOMAIN prev : prev[x] # Virtual} |-> prev[v]]>>

(***************************************************************************)
(* The priority queue: heapq's heappush and heappop on a list of           *)
(* (priority, node) tuples that satisfies heap[k] <= heap[2*k+1] and       *)
(* heap[k] <= heap[2*k+2].  The list is a sequence, so position k of the   *)
(* Python list is position k + 1 here, with children 2k and 2k + 1.        *)
(***************************************************************************)
\* the order of the node names
NodeRank(n) == CASE n = NoId -> 0
                  [] n = "A" -> 1 [] n = "B" -> 2 [] n = "C" -> 3 [] OTHER -> 4

\* x < y on (priority, node) tuples: by priority, then by node
Less(x, y) == x[1] < y[1] \/ (x[1] = y[1] /\ NodeRank(x[2]) < NodeRank(y[2]))

\* the heap property of a list
IsHeap(h) == \A k \in 2..Len(h) : ~Less(h[k], h[k \div 2])

\* move newitem from pos towards startpos, past every parent it is less than
RECURSIVE siftdown(_, _, _, _)
siftdown(h, startpos, pos, newitem) ==
    IF pos > startpos /\ Less(newitem, h[pos \div 2])
    THEN siftdown([h EXCEPT ![pos] = h[pos \div 2]], startpos, pos \div 2, newitem)
    ELSE [h EXCEPT ![pos] = newitem]

\* ChildUp that always moves the left child up
ChildUpLeft(h, pos) ==
    IF 2 * pos > Len(h) THEN <<h, pos>>
    ELSE <<[h EXCEPT ![pos] = h[2 * pos]], 2 * pos>>

\* move the smaller child of pos up into pos: <<the list, the child's
\* position>>, the list and pos themselves at a leaf
ChildUp(h, pos) ==
    IF 2 * pos > Len(h) THEN <<h, pos>>
    ELSE LET childpos == 2 * pos
             rightpos == childpos + 1
             c == IF rightpos <= Len(h) /\ ~Less(h[childpos], h[rightpos])
                  THEN rightpos ELSE childpos
         IN  <<[h EXCEPT ![pos] = h[c]], c>>

\* bubble the smaller child up from pos until a leaf: <<the list, the leaf>>
RECURSIVE BubbleUp(_, _)
BubbleUp(h, pos) ==
    LET r == ChildUp(h, pos)
    IN  IF r[2] = pos THEN r ELSE BubbleUp(r[1], r[2])

\* put the item at pos in its place below pos
siftup(h, pos) ==
    LET newitem == h[pos]
        r == BubbleUp(h, pos)
    IN  siftdown([r[1] EXCEPT ![r[2]] = newitem], pos, r[2], newitem)

\* heappush: add an item, maintaining the heap property
heappush(h, item) == siftdown(Append(h, item), 1, Len(h) + 1, item)

\* heappop: remove the item with the lowest value, maintaining the heap
\* property: [item, heap]
heappop(h) ==
    LET lastelt == h[Len(h)]
        rest == SubSeq(h, 1, Len(h) - 1)
    IN  IF rest # <<>>
        THEN [item |-> rest[1], heap |-> siftup([rest EXCEPT ![1] = lastelt], 1)]
        ELSE [item |-> lastelt, heap |-> <<>>]

\* heappushpop that puts the item at the top and leaves it there
heappushpopTop(h, item) ==
    IF h # <<>> /\ Less(h[1], item)
    THEN [item |-> h[1], heap |-> [h EXCEPT ![1] = item]]
    ELSE [item |-> item, heap |-> h]

\* heappushpop: push the item, then pop and return the smallest item: the
\* item itself unless the top of the heap is less than it: [item, heap]
heappushpop(h, item) ==
    IF h # <<>> /\ Less(h[1], item)
    THEN [item |-> h[1], heap |-> siftup([h EXCEPT ![1] = item], 1)]
    ELSE [item |-> item, heap |-> h]

(***************************************************************************)
(* The retained e-mails.                                                   *)
(***************************************************************************)
\* the ids of the e-mails, in the order NodeRank gives them: names that
\* stand for the numbers of the mails
IdNames == <<"A", "B", "C", "D">>

MailIds == {IdNames[i] : i \in (1..MaxMails) \cap DOMAIN IdNames}

\* an e-mail is (importance, id)
Mails == (0..MaxImportance) \X MailIds

\* the lists of e-mails: no two e-mails of a list share an id
MailLists ==
    UNION {{l \in [1..n -> Mails] : \A i, j \in 1..n : l[i][2] = l[j][2] => i = j}
           : n \in 0..MaxMails}

\* -1e10: below the importance of every e-mail
Floor == 0 - Inf

\* [(-1e10, -1) for i in range(k)]
RECURSIVE Placeholders(_)
Placeholders(k) ==
    IF k = 0 THEN <<>> ELSE Append(Placeholders(k - 1), <<Floor, NoId>>)

\* a sorted list with x put in its place
RECURSIVE Insert(_, _)
Insert(s, x) ==
    IF s = <<>> THEN <<x>>
    ELSE IF Less(x, Head(s)) THEN <<x>> \o s
    ELSE <<Head(s)>> \o Insert(Tail(s), x)

\* a sort that leaves the list as it is
Unsorted(s) == s

\* list.sort(): the items of the list in ascending order
RECURSIVE sort(_)
sort(s) == IF s = <<>> THEN <<>> ELSE Insert(sort(Tail(s)), Head(s))

\* the body of the loop of top_k_sorted for one e-mail
SortedStep(top, mail) ==
    IF top[1][1] < mail[1] THEN sort([top EXCEPT ![1] = mail]) ELSE top

\* the body of the loop of top_k_heaped for one e-mail
HeapedStep(top, mail) ==
    IF top[1][1] < mail[1] THEN heappushpop(top, mail).heap ELSE top

\* the loop of top_k_sorted or top_k_heaped over a list of e-mails
RECURSIVE MailLoop(_, _, _)
MailLoop(k, mails, top) ==
    IF mails = <<>> THEN top
    ELSE MailLoop(k, Tail(mails),
                  IF k = "top_k_sorted" THEN SortedStep(top, Head(mails))
                  ELSE HeapedStep(top, Head(mails)))

top_k_sorted(mails, k) == MailLoop("top_k_sorted", mails, Placeholders(k))

top_k_heaped(mails, k) == MailLoop("top_k_heaped", mails, Placeholders(k))

(***************************************************************************)
(* The calls.                                                              *)
(***************************************************************************)
\* the heuristics: an estimate 0..MaxH for every vertex
Heuristics(g) == [DOMAIN g -> 0..MaxH]

NoHeuristic == EmptyDict

Start(k, s, t, h, parks, st) ==
    /\ pc = "idle"
    /\ kind' = k
    /\ source' = s
    /\ sink' = t
    /\ heuristic' = h
    /\ park_vertices' = parks
    /\ distance' = st.distance
    /\ previous' = st.previous
    /\ Q' = st.Q
    /\ pc' = "loop"
    /\ stats' = StartStats(stats, st.Q)
    /\ UNCHANGED <<graph, ret, other, heap, emails, top_set, position>>

\* The generated graphs are all the graphs on Nodes, so a search from "A"
\* stands for the searches from every vertex, and one from "A" to "B" for
\* those between any two vertices
Sources == {"A", Absent}

\* a graph with a fourth vertex has A* search for that vertex too
Sinks == {"A", "B"}

\* dijkstra(graph, source) and dijkstra(graph, source, sink)
Dijkstra(S, T) ==
    \E s \in S, t \in T :
        Start("dijkstra", s, t, NoHeuristic, {}, DijkstraInit(graph, s))

CallDijkstra == Dijkstra(Sources, DOMAIN graph \cup {Absent, None})

CallDijkstraSink == Dijkstra(Sources, DOMAIN graph \cup {Absent})

CallDijkstraExample == Dijkstra(DOMAIN graph, DOMAIN graph \cup {None})

\* a_star(graph, source, sink, heuristic)
CallAstar ==
    \E t \in Sinks \cup (DOMAIN graph \ Nodes), h \in Heuristics(graph) :
        Start("a_star", "A", t, h, {}, AstarInit("A", h))

\* a_star on a graph with an edge into a node that is no key: the heuristic
\* is a function of the node, defined for that node too
CallAstarDangling ==
    \E t \in Sinks, h \in [DOMAIN graph \cup {Absent} -> {0, MaxH}] :
        Start("a_star", "A", t, h, {}, AstarInit("A", h))

\* compute_distances_to_park(city_graph, park_vertices)
CallToPark ==
    \E parks \in SUBSET DOMAIN graph :
        Start("to_park", Virtual, None, NoHeuristic, parks,
              DijkstraInit(ParkGraph(graph, parks), Virtual))

\* the direct search from all park vertices at once, along the edges
\* ("multi_forward") or against them ("multi_reversed")
CallMulti ==
    \E parks \in SUBSET DOMAIN graph, k \in {"multi_forward", "multi_reversed"} :
        Start(k, None, None, NoHeuristic, parks, MultiInit(graph, parks))

\* Dijkstra from one vertex that stops at the first park vertex it pops
CallNearest ==
    \E parks \in SUBSET DOMAIN graph :
        Start("nearest", "A", None, NoHeuristic, parks, DijkstraInit(graph, "A"))

\* LoopIteration with the distance dict a global that every search writes:
\* the waiting search finds the running search's distances in it
LoopIterationGlobalDistance ==
    /\ pc = "loop"
    /\ Q # {}
    /\ \E e \in MinEntries(Q) :
        LET U == e[2]
            st == [distance |-> distance, previous |-> previous, Q |-> Q \ {e}]
        IN  IF Stops(kind, sink, park_vertices, U)
            THEN /\ pc' = "break"
                 /\ Q' = st.Q
                 /\ ret' = <<U>>
                 /\ UNCHANGED <<distance, previous, other>>
            ELSE \E order \in Orders(Neighbors(SearchGraph(graph, kind, park_vertices), U)) :
                    LET new == RelaxAll(st, kind, heuristic, U, order)
                    IN  /\ distance' = new.distance
                        /\ previous' = new.previous
                        /\ Q' = new.Q
                        /\ other' = IF other.pc = "loop"
                                    THEN [other EXCEPT !.distance = new.distance]
                                    ELSE other
                        /\ UNCHANGED <<pc, ret>>
    /\ UNCHANGED <<graph, kind, source, sink, heuristic, park_vertices, heap,
                   stats, emails, top_set, position>>

\* one iteration of the main loop: pop U; break if the search stops at U,
\* else relax every neighbour of U
LoopIteration ==
    /\ pc = "loop"
    /\ Q # {}
    /\ \E e \in MinEntries(Q) :
        LET U == e[2]
            st == [distance |-> distance, previous |-> previous, Q |-> Q \ {e}]
        IN  IF Stops(kind, sink, park_vertices, U)
            THEN /\ pc' = "break"
                 /\ Q' = st.Q
                 /\ ret' = <<U>>     \* the node the loop stopped at
                 /\ UNCHANGED <<distance, previous, stats>>
            ELSE IF MissingDistance(kind, distance,
                                    Neighbors(SearchGraph(graph, kind, park_vertices), U))
            THEN /\ pc' = "KeyError"
                 /\ Q' = st.Q
                 /\ ret' = <<>>
                 /\ UNCHANGED <<distance, previous, stats>>
            ELSE \E order \in Orders(Neighbors(SearchGraph(graph, kind, park_vertices), U)) :
                    LET new == RelaxAll(st, kind, heuristic, U, order)
                    IN  /\ distance' = new.distance
                        /\ previous' = new.previous
                        /\ Q' = new.Q
                        /\ stats' = Expanded(stats, st, kind, heuristic, e, order)
                        /\ UNCHANGED <<pc, ret>>
    /\ UNCHANGED <<graph, kind, source, sink, heuristic, park_vertices,
                   other, heap, emails, top_set, position>>

\* A*'s "length of path": the sink's distance, infinity when it has none
AstarLength(dist, t) == IF t \in DOMAIN dist THEN dist[t] ELSE Inf

\* what the call returns once the loop is left: <<outcome, value>>
Result(k, s, t, dist, prev, stopped) ==
    CASE k = "dijkstra" /\ t = None -> <<"returned", <<dist, prev>>>>
      [] k = "dijkstra" /\ t # None ->
            LET r == reconstruct_path(prev, s, t)
            IN  IF r.status # "ok" THEN <<r.status, <<>>>>
                ELSE IF t \notin DOMAIN dist THEN <<"KeyError", <<>>>>
                ELSE <<"returned", <<r.path, dist[t]>>>>
      [] k = "a_star" ->
            LET r == reconstruct_path(prev, s, t)
            IN  IF r.status # "ok" THEN <<r.status, <<>>>>
                ELSE <<"returned", <<r.path, AstarLength(dist, t)>>>>
      [] k = "to_park" -> <<"returned", ParkResult(dist, prev)>>
      [] k = "nearest" ->
            <<"returned", IF stopped = <<>> THEN <<>> ELSE <<stopped[1], dist[stopped[1]]>>>>
      [] OTHER -> <<"returned", <<dist, prev>>>>

\* the main loop run to its end, taking the first entry and the first order
\* each time: <<the final search state, <<the node it stopped at>>, "ok">>,
\* "KeyError" in the place of "ok" when the loop raised it
RECURSIVE RunLoop(_, _, _, _, _, _)
RunLoop(g, k, t, h, parks, st) ==
    IF st.Q = {} THEN <<st, <<>>, "ok">>
    ELSE LET e   == CHOOSE x \in MinEntries(st.Q) : TRUE
             U   == e[2]
             st1 == [st EXCEPT !.Q = @ \ {e}]
         IN  IF Stops(k, t, parks, U) THEN <<st1, <<U>>, "ok">>
             ELSE IF MissingDistance(k, st.distance, Neighbors(SearchGraph(g, k, parks), U))
             THEN <<st1, <<>>, "KeyError">>
             ELSE RunLoop(g, k, t, h, parks,
                          RelaxAll(st1, k, h, U,
                                   CHOOSE o \in Orders(Neighbors(SearchGraph(g, k, parks), U)) : TRUE))

\* the main loop run to its end in every way the queue and the neighbour
\* orders allow: the set of the final search states
RECURSIVE AllRuns(_, _, _, _, _, _)
AllRuns(g, k, t, h, parks, st) ==
    IF st.Q = {} THEN {st}
    ELSE UNION {
        LET U   == e[2]
            st1 == [st EXCEPT !.Q = @ \ {e}]
        IN  IF Stops(k, t, parks, U) THEN {st1}
            ELSE IF MissingDistance(k, st.distance, Neighbors(SearchGraph(g, k, parks), U))
            THEN {}
            ELSE UNION {AllRuns(g, k, t, h, parks, RelaxAll(st1, k, h, U, o)) :
                            o \in Orders(Neighbors(SearchGraph(g, k, parks), U))}
        : e \in MinEntries(st.Q)}

\* the search state a call of kind k starts its loop with
InitialState(g, k, s, h, parks) ==
    CASE k = "a_star"  -> AstarInit(s, h)
      [] k = "to_park" -> DijkstraInit(ParkGraph(g, parks), Virtual)
      [] k \in {"multi_forward", "multi_reversed"} -> MultiInit(g, parks)
      [] OTHER         -> DijkstraInit(g, s)

\* a whole call: <<outcome, value>>
Run(g, k, s, t, h, parks) ==
    LET end == RunLoop(g, k, t, h, parks, InitialState(g, k, s, h, parks))
    IN  IF end[3] # "ok" THEN <<end[3], <<>>>>
        ELSE Result(k, s, t, end[1].distance, end[1].previous, end[2])

\* the loop is left (the queue is empty, or the break) and the call returns
Return ==
    /\ \/ pc = "loop" /\ Q = {}
       \/ pc = "break"
    /\ LET r == Result(kind, source, sink, distance, previous, ret)
       IN  /\ pc' = r[1]
           /\ ret' = r[2]
    /\ UNCHANGED <<graph, kind, source, sink, heuristic, park_vertices,
                   distance, previous, Q, other, heap, stats, emails, top_set, position>>

\* a search that has not been called yet
IdleSearch ==
    [kind |-> None, source |-> None, sink |-> None, heuristic |-> NoHeuristic,
     park_vertices |-> {}, distance |-> EmptyDict, previous |-> EmptyDict,
     Q |-> {}, pc |-> "idle", ret |-> <<>>, stats |-> NoStats]

IdleWith(g, s) ==
    /\ graph = g
    /\ kind = None
    /\ source = None
    /\ sink = None
    /\ heuristic = NoHeuristic
    /\ park_vertices = {}
    /\ distance = EmptyDict
    /\ previous = EmptyDict
    /\ Q = {}
    /\ pc = "idle"
    /\ ret = <<>>
    /\ other = IdleSearch
    /\ heap = <<>>
    /\ stats = s
    /\ emails = <<>>
    /\ top_set = <<>>
    /\ position = 0

\* no call yet, over the graph g
Idle(g) == IdleWith(g, NoStats)

Init == \E g \in Graphs \cup {LineGraph, DiamondGraph} : Idle(g)

InitPath == \E g \in Graphs \cup {ReopenGraph} : IdleWith(g, KeptStats)

\* full runs, single-sink runs and the searches for the nearest park
Next ==
    \/ CallDijkstra
    \/ CallToPark
    \/ CallMulti
    \/ CallNearest
    \/ LoopIteration
    \/ Return

Spec == Init /\ [][Next]_vars

\* a search that is called runs to its end: the loop takes its next
\* iteration as long as it has one
SpecLive == Init /\ [][Next]_vars /\ WF_vars(LoopIteration)

\* the two single-pair searches, Dijkstra and A*
NextPath ==
    \/ CallDijkstraSink
    \/ CallAstar
    \/ LoopIteration
    \/ Return

SpecPath == InitPath /\ [][NextPath]_vars

\* the search that is running, as a record of its locals
Running ==
    [kind |-> kind, source |-> source, sink |-> sink, heuristic |-> heuristic,
     park_vertices |-> park_vertices, distance |-> distance,
     previous |-> previous, Q |-> Q, pc |-> pc, ret |-> ret, stats |-> stats]

\* the thread of the running search is suspended between two steps and the
\* thread of the other search runs on
Switch ==
    /\ other' = Running
    /\ kind' = other.kind
    /\ source' = other.source
    /\ sink' = other.sink
    /\ heuristic' = other.heuristic
    /\ park_vertices' = other.park_vertices
    /\ distance' = other.distance
    /\ previous' = other.previous
    /\ Q' = other.Q
    /\ pc' = other.pc
    /\ ret' = other.ret
    /\ stats' = other.stats
    /\ UNCHANGED <<graph, heap, emails, top_set, position>>

\* dijkstra(graph, source), from either of two sources
CallFull == Dijkstra({"A", "B"}, {None})

\* two full runs of Dijkstra over the same graph, their steps interleaved
NextTwo ==
    \/ CallFull
    \/ LoopIteration
    \/ Return
    \/ Switch

SpecTwo == Init /\ [][NextTwo]_vars

\* heappush(heap, (priority, node))
HeapPush ==
    /\ Len(heap) < MaxHeap
    /\ \E p \in 0..MaxPriority, n \in HeapNodes : heap' = heappush(heap, <<p, n>>)
    /\ ret' = <<>>
    /\ UNCHANGED <<graph, kind, source, sink, heuristic, park_vertices,
                   distance, previous, Q, pc, other, stats, emails, top_set, position>>

\* heappop(heap), ret the item it returns
HeapPop ==
    /\ heap # <<>>
    /\ LET r == heappop(heap)
       IN  /\ heap' = r.heap
           /\ ret' = r.item
    /\ UNCHANGED <<graph, kind, source, sink, heuristic, park_vertices,
                   distance, previous, Q, pc, other, stats, emails, top_set, position>>

\* any sequence of heappush and heappop on a list that starts empty
NextQueue ==
    \/ HeapPush
    \/ HeapPop

SpecQueue == Idle(GraphOf(Nodes, {})) /\ [][NextQueue]_vars

\* heappushpop(heap, item), ret the item it returns
HeapPushPop ==
    /\ \E p \in 0..MaxPriority, n \in HeapNodes :
        LET r == heappushpop(heap, <<p, n>>)
        IN  /\ heap' = r.heap
            /\ ret' = r.item
    /\ UNCHANGED <<graph, kind, source, sink, heuristic, park_vertices,
                   distance, previous, Q, pc, other, stats, emails, top_set, position>>

\* the cell that fills emails and a call of top_k_sorted(k) or
\* top_k_heaped(k): the list of retained e-mails initialised
CallTopK(k) ==
    /\ pc = "idle"
    /\ kind' = k
    /\ emails' \in MailLists
    /\ \E n \in 1..MaxK : top_set' = Placeholders(n)
    /\ position' = 0
    /\ pc' = "mails"
    /\ UNCHANGED <<graph, source, sink, heuristic, park_vertices,
                   distance, previous, Q, ret, other, heap, stats>>

CallTopKSorted == CallTopK("top_k_sorted")

CallTopKHeaped == CallTopK("top_k_heaped")

\* one iteration of "for importance, id in emails"
MailIteration ==
    /\ pc = "mails"
    /\ position < Len(emails)
    /\ top_set' = IF kind = "top_k_sorted"
                  THEN SortedStep(top_set, emails[position + 1])
                  ELSE HeapedStep(top_set, emails[position + 1])
    /\ position' = position + 1
    /\ UNCHANGED <<graph, kind, source, sink, heuristic, park_vertices,
                   distance, previous, Q, pc, ret, other, heap, stats, emails>>

\* return top_set
ReturnTopSet ==
    /\ pc = "mails"
    /\ position = Len(emails)
    /\ ret' = top_set
    /\ pc' = "returned"
    /\ UNCHANGED <<graph, kind, source, sink, heuristic, park_vertices,
                   distance, previous, Q, other, heap, stats, emails, top_set, position>>

\* the two ways of retaining e-mails, each over every list of e-mails
NextMail ==
    \/ CallTopKSorted
    \/ CallTopKHeaped
    \/ MailIteration
    \/ ReturnTopSet

SpecMail == Idle(GraphOf(Nodes, {})) /\ [][NextMail]_vars

\* either any sequence of heappush, heappop and heappushpop on a list that
\* starts empty, or, the list empty, a call of top_k_heaped
NextHeap ==
    \/ pc = "idle" /\ HeapPush
    \/ pc = "idle" /\ HeapPop
    \/ pc = "idle" /\ HeapPushPop
    \/ heap = <<>> /\ CallTopKHeaped
    \/ MailIteration
    \/ ReturnTopSet

SpecHeap == Idle(GraphOf(Nodes, {})) /\ [][NextHeap]_vars

InitDangling == \E g \in DanglingGraphs : Idle(g)

\* the searches on the graphs with an edge into a node that is no key
NextDangling ==
    \/ CallDijkstra
    \/ CallAstarDangling
    \/ LoopIteration
    \/ Return

SpecDangling == InitDangling /\ [][NextDangling]_vars

\* the came_from dicts over the vertices, well formed or not
CameFroms == UNION {[D -> Nodes] : D \in SUBSET Nodes}

\* reconstruct_path(came_from, source, sink), called on its own
CallReconstruct ==
    /\ pc = "idle"
    /\ kind = None
    /\ LET r == reconstruct_path(previous, source, sink)
       IN  /\ pc' = IF r.status = "ok" THEN "returned" ELSE r.status
           /\ ret' = r.path
    /\ kind' = "reconstruct_path"
    /\ UNCHANGED <<graph, source, sink, heuristic, park_vertices,
                   distance, previous, Q, other, heap, stats, emails, top_set, position>>

InitReconstruct ==
    /\ graph = GraphOf(Nodes, {})
    /\ kind = None
    /\ source \in Nodes
    /\ sink \in Nodes
    /\ heuristic = NoHeuristic
    /\ park_vertices = {}
    /\ distance = EmptyDict
    /\ previous \in CameFroms
    /\ Q = {}
    /\ pc = "idle"
    /\ ret = <<>>
    /\ other = IdleSearch
    /\ heap = <<>>
    /\ stats = NoStats
    /\ emails = <<>>
    /\ top_set = <<>>
    /\ position = 0

NextReconstruct == CallReconstruct

SpecReconstruct == InitReconstruct /\ [][NextReconstruct]_vars

\* Dijkstra on the example graph of Assignment 1
NextExample ==
    \/ CallDijkstraExample
    \/ LoopIteration
    \/ Return

SpecExample == Idle(ExampleGraph) /\ [][NextExample]_vars

(***************************************************************************)
(* Graph theory the claims are stated in.                                  *)
(***************************************************************************)
Min(S) == CHOOSE x \in S : \A y \in S : x <= y

Range(f) == {f[i] : i \in DOMAIN f}

\* the weights of the edges from u to v
EdgeWeights(g, u, v) == {e[1] : e \in {x \in Neighbors(g, u) : x[2] = v}}

HasEdge(g, u, v) == EdgeWeights(g, u, v) # {}

\* the paths from the last node of p to t that visit no node twice, each
\* written after p
RECURSIVE Paths(_, _, _)
Paths(g, p, t) ==
    IF p[Len(p)] = t THEN {p}
    ELSE UNION {Paths(g, Append(p, v), t) :
                    v \in {e[2] : e \in Neighbors(g, p[Len(p)])} \ Range(p)}

\* the weight of a path, the lightest edge taken between two nodes
RECURSIVE PathWeight(_, _)
PathWeight(g, p) ==
    IF Len(p) <= 1 THEN 0
    ELSE Min(EdgeWeights(g, p[1], p[2])) + PathWeight(g, Tail(p))

\* the shortest distance from s to t, Inf when there is no path
TrueDist(g, s, t) ==
    LET ps == Paths(g, <<s>>, t)
    IN  IF ps = {} THEN Inf ELSE Min({PathWeight(g, p) : p \in ps})

IsPath(g, p) == \A i \in 1..(Len(p) - 1) : HasEdge(g, p[i], p[i + 1])

\* a full run of Dijkstra has returned its distance and previous dicts
FullRunReturned == pc = "returned" /\ kind = "dijkstra" /\ sink = None

(***************************************************************************)
(* C1: a full run of Dijkstra (no sink) returns a distance table in which  *)
(* the source maps to 0, every node reachable from the source maps to the  *)
(* least total weight of a path from the source, and every unreachable     *)
(* node is absent or maps to infinity.                                     *)
(***************************************************************************)
C1_FullRunDistances ==
    FullRunReturned =>
        LET d == ret[1]
        IN  /\ source \in DOMAIN d /\ d[source] = 0
            /\ \A v \in DOMAIN graph :
                IF TrueDist(graph, source, v) = Inf
                THEN v \notin DOMAIN d \/ d[v] = Inf
                ELSE v \in DOMAIN d /\ d[v] = TrueDist(graph, source, v)

\* a full run in which a node's distance over two edges beats its direct edge
C1_Witness ==
    /\ FullRunReturned
    /\ source = "A"
    /\ HasEdge(graph, "A", "B")
    /\ ret[1]["B"] < Min(EdgeWeights(graph, "A", "B"))
    /\ ret[2]["B"] = "C"

\* a search for one pair has returned <<path, length>>
PathReturned == pc = "returned" /\ kind \in {"dijkstra", "a_star"} /\ sink # None

\* the heuristic never overestimates the distance to the sink
Admissible(g, h, t) == \A v \in DOMAIN g : h[v] <= TrueDist(g, v, t)

\* the heuristic obeys the triangle inequality on every edge
Consistent(g, h, t) ==
    /\ h[t] = 0
    /\ \A u \in DOMAIN g : \A e \in g[u] : h[u] <= e[1] + h[e[2]]

ExamplePath == <<"A", "B", "C", "E", "F", "I">>

(***************************************************************************)
(* C2, as stated: on the example graph dijkstra(graph, 'A', 'I') returns   *)
(* [A, B, C, E, F, I] or another shortest path with length 13, and         *)
(* dijkstra(graph, 'A') maps 'I' to 13.                                    *)
(***************************************************************************)
C2_Length13 ==
    (pc = "returned" /\ graph = ExampleGraph /\ source = "A") =>
        /\ sink = "I" => ret[2] = 13
        /\ sink = None => ret[1]["I"] = 13

(***************************************************************************)
(* C2, amended: on the example graph dijkstra(graph, 'A', 'I') returns     *)
(* [A, B, C, E, F, I] or another path from A to I of the same length, with *)
(* length 15, and dijkstra(graph, 'A') maps 'I' to 15.                     *)
(***************************************************************************)
C2_Length15 ==
    (pc = "returned" /\ graph = ExampleGraph /\ source = "A") =>
        /\ sink = "I" =>
            /\ \/ ret[1] = ExamplePath
               \/ /\ ret[1] # <<>>
                  /\ ret[1][1] = "A" /\ ret[1][Len(ret[1])] = "I"
                  /\ IsPath(graph, ret[1])
                  /\ PathWeight(graph, ret[1]) = 15
            /\ ret[2] = 15
        /\ sink = None => ret[1]["I"] = 15

\* dijkstra(graph, 'A', 'I') has returned the example path
C2_Witness ==
    /\ PathReturned
    /\ graph = ExampleGraph /\ source = "A" /\ sink = "I"
    /\ ret[1] = ExamplePath

(***************************************************************************)
(* C3: when the sink is reachable and the heuristic is admissible, A*      *)
(* returns a path whose total weight is the length Dijkstra returns for    *)
(* the same pair.                                                          *)
(***************************************************************************)
C3_AstarMatchesDijkstra ==
    (PathReturned /\ kind = "a_star"
        /\ TrueDist(graph, source, sink) < Inf
        /\ Admissible(graph, heuristic, sink)) =>
        LET d == Run(graph, "dijkstra", source, sink, NoHeuristic, {})
        IN  /\ d[1] = "returned"
            /\ ret[2] = d[2][2]
            /\ IsPath(graph, ret[1])
            /\ PathWeight(graph, ret[1]) = d[2][2]

\* A* has returned a two-edge path under an admissible heuristic that is not
\* consistent, a heavier direct edge left aside
C3_Witness ==
    /\ PathReturned /\ kind = "a_star"
    /\ Admissible(graph, heuristic, sink)
    /\ ~Consistent(graph, heuristic, sink)
    /\ Len(ret[1]) = 3
    /\ HasEdge(graph, source, sink)
    /\ ret[2] < Min(EdgeWeights(graph, source, sink))

(***************************************************************************)
(* C4: when the sink is not reachable from the source (a sink that is no   *)
(* key of the graph and a sink no edge points to included),                *)
(* dijkstra(graph, source, sink) returns the empty path with length        *)
(* infinity and raises no error.                                           *)
(***************************************************************************)
C4_UnreachableSink ==
    (kind = "dijkstra" /\ sink # None /\ pc \notin {"idle", "loop", "break"}
        /\ TrueDist(graph, source, sink) = Inf) =>
        /\ pc = "returned"
        /\ ret = <<<<>>, Inf>>

(***************************************************************************)
(* C5: reconstruct_path returns the nodes from source to sink obtained by  *)
(* following the previous links back from the sink; it returns the empty   *)
(* list exactly when the sink has no previous node and is not the source,  *)
(* and [source] when the sink is the source.                               *)
(***************************************************************************)
C5_Reconstruct ==
    (PathReturned /\ kind = "dijkstra") =>
        LET r == reconstruct_path(previous, source, sink)
            p == r.path
        IN  /\ r.status = "ok"
            /\ p = <<>> <=> (sink \notin DOMAIN previous /\ sink # source)
            /\ sink = source => p = <<source>>
            /\ p # <<>> =>
                /\ p[1] = source /\ p[Len(p)] = sink
                /\ \A i \in 1..(Len(p) - 1) : previous[p[i + 1]] = p[i]

(***************************************************************************)
(* C6: a non-empty path returned by Dijkstra or by A*, whatever the        *)
(* heuristic, starts at the source, ends at the sink, follows edges of the *)
(* graph, and its edge weights (the lightest edge between two nodes) sum   *)
(* to the returned length.                                                 *)
(***************************************************************************)
C6_PathSumsToLength ==
    (PathReturned /\ ret[1] # <<>>) =>
        LET p == ret[1]
        IN  /\ p[1] = source /\ p[Len(p)] = sink
            /\ IsPath(graph, p)
            /\ PathWeight(graph, p) = ret[2]

\* A* has returned, under a heuristic that is not admissible, the direct
\* edge where a path over two edges is shorter
C6_Witness ==
    /\ PathReturned /\ kind = "a_star"
    /\ ~Admissible(graph, heuristic, sink)
    /\ Len(ret[1]) = 2
    /\ ret[2] > TrueDist(graph, source, sink)

\* the distance from n to the nearest park vertex, Inf when it reaches none
ParkDist(g, parks, n) == Min({TrueDist(g, n, p) : p \in parks} \cup {Inf})

(***************************************************************************)
(* C7: compute_distances_to_park returns, for every node that reaches a    *)
(* park vertex along the edges, the least distance from it to a park       *)
(* vertex (0 for a park vertex), and for every such node outside the parks *)
(* a next vertex that is one of its successors, with                       *)
(* distance[n] = weight(n, next[n]) + distance[next[n]]; on the line       *)
(* A -> B -> C -> D -> E with parks {A, E}, distance[C] = 2.               *)
(***************************************************************************)
C7_NearestPark ==
    (pc = "returned" /\ kind = "to_park") =>
        LET dist == ret[1]
            next == ret[2]
        IN  /\ \A n \in DOMAIN graph :
                ParkDist(graph, park_vertices, n) < Inf =>
                    /\ n \in DOMAIN dist
                    /\ dist[n] = ParkDist(graph, park_vertices, n)
                    /\ n \in park_vertices => dist[n] = 0
                    /\ n \notin park_vertices =>
                        /\ n \in DOMAIN next
                        /\ HasEdge(graph, n, next[n])
                        /\ dist[n] = Min(EdgeWeights(graph, n, next[n])) + dist[next[n]]
            /\ (graph = LineGraph /\ park_vertices = {"A", "E"}) => dist["C"] = 2

\* the call has returned on the line with parks {A, E}
C7_Witness ==
    /\ pc = "returned" /\ kind = "to_park"
    /\ graph = LineGraph /\ park_vertices = {"A", "E"}
    /\ ret[2]["B"] = "C"

\* the distance table of compute_distances_to_park
ParkTable(g, parks) == Run(g, "to_park", Virtual, None, NoHeuristic, parks)[2][1]

(***************************************************************************)
(* C8, as stated: the direct search from all park vertices at distance 0   *)
(* that relaxes along the original edge direction ends with the distance   *)
(* table of the reversed-graph search from the virtual source.             *)
(***************************************************************************)
C8_ForwardMulti ==
    (pc = "returned" /\ kind = "multi_forward") =>
        ret[1] = ParkTable(graph, park_vertices)

(***************************************************************************)
(* C8, amended: the direct search from all park vertices at distance 0     *)
(* that relaxes against the edge direction (each edge taken from its       *)
(* target to its origin, with its own weight) ends with the distance table *)
(* of the reversed-graph search from the virtual source.                   *)
(***************************************************************************)
C8_ReversedMulti ==
    (pc = "returned" /\ kind = "multi_reversed") =>
        ret[1] = ParkTable(graph, park_vertices)

\* the direct search against the edges has returned with a node two edges
\* from its park, and the search along the edges would not reach that node
C8_Witness ==
    /\ pc = "returned" /\ kind = "multi_reversed"
    /\ park_vertices = {"C"}
    /\ ret[2] = [A |-> "B", B |-> "C"]
    /\ ret[1]["A"] > ret[1]["B"] /\ ret[1]["B"] > 0
    /\ TrueDist(graph, "C", "A") = Inf

(***************************************************************************)
(* C9: Dijkstra from a node n that stops at the first park vertex it pops  *)
(* ends with the distance the reversed-graph search from the virtual       *)
(* source gives n, and finds no park vertex exactly when that search gives *)
(* n no distance.                                                          *)
(***************************************************************************)
C9_StopAtPark ==
    (pc = "returned" /\ kind = "nearest") =>
        LET ref == ParkTable(graph, park_vertices)[source]
        IN  IF ret = <<>> THEN ref = Inf
            ELSE ret[1] \in park_vertices /\ ret[2] = ref /\ ref < Inf

\* the search has stopped at the nearer of two park vertices, the farther
\* one discovered first
C9_Witness ==
    /\ pc = "returned" /\ kind = "nearest"
    /\ park_vertices = {"B", "C"}
    /\ ret # <<>> /\ ret[1] = "C"
    /\ HasEdge(graph, "A", "B")
    /\ distance["B"] < Inf /\ ret[2] < distance["B"]

(***************************************************************************)
(* C10: after a full run of Dijkstra, every edge (u, w, v) of the graph    *)
(* has distance[v] <= distance[u] + w, a node without a distance counting  *)
(* as infinity.                                                            *)
(***************************************************************************)
C10_Triangle ==
    FullRunReturned =>
        LET D(v) == IF v \in DOMAIN ret[1] THEN ret[1][v] ELSE Inf
        IN  \A u \in DOMAIN graph : \A e \in graph[u] :
                D(u) = Inf \/ D(e[2]) <= D(u) + e[1]

\* a full run over a cycle all of whose nodes are reached, one edge strictly
\* slack
C10_Witness ==
    /\ FullRunReturned
    /\ source = "A"
    /\ \A v \in DOMAIN graph : ret[1][v] < Inf
    /\ \E u \in DOMAIN graph : \E e \in graph[u] :
            e[2] = "A" /\ ret[1][e[2]] < ret[1][u] + e[1]
    /\ \E u \in DOMAIN graph : \E e \in graph[u] : ret[1][e[2]] = ret[1][u] + e[1] /\ e[1] > 0

\* dijkstra(graph, source) run again, the queue and the neighbours taken in
\* one fixed order: <<distance, previous>>
SecondRun == Run(graph, "dijkstra", source, None, NoHeuristic, {})[2]

Ended == pc \notin {"idle", "loop", "break"}

(***************************************************************************)
(* C12: a node that is no key of the graph is a node without outgoing      *)
(* edges.  A full run of Dijkstra from such a source returns distance 0    *)
(* for the source, an empty previous dict and no other node reached; a     *)
(* full run of Dijkstra or a run of A* over an edge into such a node ends  *)
(* without error, the full run with a distance recorded for that node.     *)
(***************************************************************************)
C12_AbsentNode ==
    /\ (Ended /\ (kind = "a_star" \/ (kind = "dijkstra" /\ sink = None))) =>
            pc = "returned"
    /\ (FullRunReturned /\ source \notin DOMAIN graph) =>
            /\ ret[1][source] = 0
            /\ ret[2] = EmptyDict
            /\ \A v \in DOMAIN ret[1] \ {source} : ret[1][v] = Inf
    /\ FullRunReturned =>
            \A u \in DOMAIN graph : \A e \in graph[u] :
                ret[1][u] < Inf =>
                    /\ e[2] \in DOMAIN ret[1]
                    /\ ret[1][e[2]] <= ret[1][u] + e[1]

\* the node n previous links back from V, None past a node without a link
RECURSIVE Follow(_, _, _)
Follow(came_from, V, n) ==
    IF n = 0 THEN V
    ELSE IF V \notin DOMAIN came_from THEN None
    ELSE Follow(came_from, came_from[V], n - 1)

\* the links back from t run into a cycle and never reach s: after one step
\* more than the dict has entries they have neither ended nor met s
CycleBefore(came_from, s, t) ==
    \A n \in 0..(Cardinality(DOMAIN came_from) + 1) :
        Follow(came_from, t, n) \notin {None, s}

(***************************************************************************)
(* C13: reconstruct_path on a previous dict whose links back from the sink *)
(* run into a cycle without reaching the source ends, after at most one    *)
(* step more than the dict has entries, with a structural error, which is  *)
(* not the empty path it returns for an unreachable sink; it never loops   *)
(* forever.                                                                *)
(***************************************************************************)
C13_CycleReported ==
    (kind = "reconstruct_path" /\ CycleBefore(previous, source, sink)) =>
        /\ pc = "StructuralError"
        /\ pc # "loops"

(***************************************************************************)
(* C14: a_star with a heuristic that overestimates the distance to the     *)
(* sink for some node ends without error, and when the sink is reachable   *)
(* it returns a path from the source to the sink along edges of the graph  *)
(* whose length is the returned length and at least the shortest distance. *)
(***************************************************************************)
C14_NonAdmissible ==
    (kind = "a_star" /\ Ended /\ ~Admissible(graph, heuristic, sink)) =>
        /\ pc = "returned"
        /\ TrueDist(graph, source, sink) < Inf =>
            LET p == ret[1]
            IN  /\ p # <<>>
                /\ p[1] = source /\ p[Len(p)] = sink
                /\ IsPath(graph, p)
                /\ PathWeight(graph, p) = ret[2]
                /\ ret[2] >= TrueDist(graph, source, sink)

\* what dijkstra(g, s) can return when it runs alone
AloneResults(g, s) ==
    {<<r.distance, r.previous>> :
        r \in AllRuns(g, "dijkstra", None, NoHeuristic, {}, DijkstraInit(g, s))}

(***************************************************************************)
(* C15: of two full runs of Dijkstra over the same graph whose steps are   *)
(* interleaved in any way, each with its own distance dict, previous dict  *)
(* and queue, neither changes the graph, and each returns a distance dict  *)
(* and a previous dict that it can return when it runs alone.              *)
(***************************************************************************)
C15_Interleaved ==
    /\ [][graph' = graph]_vars
    /\ [](/\ (pc = "returned" /\ other.pc # "idle") =>
                ret \in AloneResults(graph, source)
          /\ other.pc = "returned" =>
                other.ret \in AloneResults(graph, other.source))

\* both runs have returned, from different sources and with different
\* tables, over a cycle through the three nodes
C15_Witness ==
    /\ pc = "returned" /\ other.pc = "returned"
    /\ source = "A" /\ other.source = "B"
    /\ ret[1] # other.ret[1]
    /\ ret[2] = [B |-> "A", C |-> "B"]
    /\ other.ret[2] = [C |-> "B", A |-> "C"]

\* how many times x is in the list h
Count(h, x) == Cardinality({i \in DOMAIN h : h[i] = x})

\* list h2 holds what list h1 holds and x once more
OneMore(h1, x, h2) ==
    \A y \in Range(h1) \cup Range(h2) \cup {x} :
        Count(h2, y) = Count(h1, y) + (IF y = x THEN 1 ELSE 0)

(***************************************************************************)
(* C16: after any sequence of heappush and heappop, a heappop on a list    *)
(* that is not empty returns an entry of the list whose priority is the    *)
(* smallest of the list and leaves every other entry in it, older entries  *)
(* of the same node included, and a heappush adds its entry and nothing    *)
(* else: the list holds the entries pushed and not yet popped, as often as *)
(* they were pushed.                                                       *)
(***************************************************************************)
C16_ExtractMin ==
    [][/\ Len(heap') < Len(heap) =>
            /\ \A i \in DOMAIN heap : ret'[1] <= heap[i][1]
            /\ OneMore(heap', ret', heap)
       /\ Len(heap') > Len(heap) =>
            \E x \in Range(heap') : OneMore(heap, x, heap')
       /\ Len(heap') # Len(heap)]_vars

\* a node's entry has been popped from a full list; two equal entries of
\* the node and one of a larger priority, pushed for it as well, stay behind
C16_Witness ==
    /\ Len(heap) = MaxHeap - 1
    /\ IsHeap(heap)
    /\ ret = <<0, "A">>
    /\ \E i, j \in DOMAIN heap :
        /\ i < j
        /\ heap[i] = <<1, "A">> /\ heap[j] = <<1, "A">>
    /\ \E i \in DOMAIN heap : heap[i] = <<2, "A">>

\* the entries of the queue whose priority is their node's distance
Fresh(q, dist) == {e \in q : e[1] = dist[e[2]]}

(***************************************************************************)
(* C17: in a run of Dijkstra, when the loop pops an entry (p, u) that is   *)
(* not stale (p is distance[u]), distance[u] is the shortest distance from *)
(* the source to u, and no later step of the search changes a distance     *)
(* that is the shortest distance.                                          *)
(***************************************************************************)
C17_AcceptedFinal ==
    [][(pc = "loop" /\ kind = "dijkstra") =>
        /\ \A e \in Fresh(Q \ Q', distance) :
                distance[e[2]] = TrueDist(graph, source, e[2])
        /\ \A v \in DOMAIN distance :
                distance[v] = TrueDist(graph, source, v) =>
                    distance'[v] = distance[v]]_vars

\* C has been popped and has improved B, whose stale entry waits in the
\* queue beside its fresh one
C17_Witness ==
    /\ pc = "loop" /\ kind = "dijkstra" /\ source = "A"
    /\ "C" \notin {e[2] : e \in Q}
    /\ previous = [C |-> "A", B |-> "C"]
    /\ \E e \in Fresh(Q, distance) : e[2] = "B"
    /\ \E e \in Q \ Fresh(Q, distance) : e[2] = "B"

\* some node at which the search stops is reachable from the source
TargetReachable ==
    \E v \in DOMAIN graph \cup {source} :
        /\ Stops(kind, sink, park_vertices, v)
        /\ TrueDist(graph, source, v) < Inf

\* the loop has been left at the sink or at a node of the target set
Found == pc = "break"

\* the loop has run out of entries
Exhausted == pc = "loop" /\ Q = {}

(***************************************************************************)
(* C18: on every graph, zero-weight edges and cycles included, the loop of *)
(* a search that has started is eventually left, either at a node at which *)
(* the search stops (the sink, a node of the target set) or with the queue *)
(* empty; it is left at such a node exactly when one is reachable from the *)
(* source, and it is left without one only when the queue is empty.        *)
(***************************************************************************)
C18_Terminates ==
    /\ (pc = "loop") ~> (Found \/ Exhausted)
    /\ [](Found => TargetReachable)
    /\ [](Exhausted => ~TargetReachable)
    /\ [][(pc = "loop" /\ pc' \notin {"loop", "break"}) => Q = {}]_vars

\* the loop has been left at the sink, reached over a zero-weight cycle
C18_Witness ==
    /\ Found /\ kind = "dijkstra" /\ source = "A" /\ sink = "C"
    /\ \E w \in Weights : graph = GraphOf(Nodes, {<<"A", 0, "B">>, <<"B", 0, "A">>, <<"B", w, "C">>})
    /\ Q = {}

(***************************************************************************)
(* C19: when the sink is reachable, the length dijkstra(graph, source,     *)
(* sink) returns, its loop left as soon as the sink is popped, is the      *)
(* sink's entry in the distance dict that dijkstra(graph, source) returns, *)
(* and the previous links back from the sink at that stop are a shortest   *)
(* path from the source.                                                   *)
(***************************************************************************)
C19_EarlyStop ==
    (pc = "returned" /\ kind = "dijkstra" /\ sink # None
        /\ TrueDist(graph, source, sink) < Inf) =>
        LET full == SecondRun[1]
            w == WalkBack(previous, source, sink, <<sink>>, 1)
        IN  /\ ret[2] = full[sink]
            /\ w.status = "ok"
            /\ w.path[1] = source
            /\ IsPath(graph, w.path)
            /\ PathWeight(graph, w.path) = full[sink]

\* the search has stopped at the sink with entries left in the queue, the
\* sink reached over two edges that beat its direct edge
C19_Witness ==
    /\ pc = "returned" /\ kind = "dijkstra" /\ source = "A" /\ sink = "B"
    /\ Q # {}
    /\ HasEdge(graph, "A", "B")
    /\ ret[1] = <<"A", "C", "B">>

\* the distance of v in a distance dict, infinity when it has none
DistanceOf(dist, v) == IF v \in DOMAIN dist THEN dist[v] ELSE Inf

\* the previous node of v in a previous dict, None when it has none
PreviousOf(prev, v) == IF v \in DOMAIN prev THEN prev[v] ELSE None

(***************************************************************************)
(* C20, as stated: in every iteration of the loop of Dijkstra and of A*,   *)
(* no node's distance increases, and the previous node of v changes        *)
(* exactly when the distance of v strictly decreases in that iteration,    *)
(* and is then the popped node U, whose edge gave the improvement.         *)
(***************************************************************************)
C20_ChangesIff ==
    [][(pc = "loop" /\ pc' \in {"loop", "break"}) =>
        \A v \in DOMAIN distance' \cup DOMAIN previous' \cup DOMAIN distance :
            /\ DistanceOf(distance', v) <= DistanceOf(distance, v)
            /\ PreviousOf(previous', v) # PreviousOf(previous, v)
                    <=> DistanceOf(distance', v) < DistanceOf(distance, v)
            /\ PreviousOf(previous', v) # PreviousOf(previous, v) =>
                    \A e \in Q \ Q' : PreviousOf(previous', v) = e[2]]_vars

(***************************************************************************)
(* C20, amended: in every iteration of the loop of Dijkstra and of A*, no  *)
(* node's distance increases; the previous node of v is written exactly    *)
(* when the distance of v strictly decreases in that iteration, and it is  *)
(* then the popped node U, whose edge gave the improvement, be it the node *)
(* v had before or another; where the distance of v stays as it is, a      *)
(* candidate equal to it included, so does its previous node.              *)
(***************************************************************************)
C20_Monotone ==
    [][(pc = "loop" /\ pc' \in {"loop", "break"}) =>
        \A v \in DOMAIN distance' \cup DOMAIN previous' \cup DOMAIN distance :
            /\ DistanceOf(distance', v) <= DistanceOf(distance, v)
            /\ DistanceOf(distance', v) < DistanceOf(distance, v) =>
                    \A e \in Q \ Q' : PreviousOf(previous', v) = e[2]
            /\ DistanceOf(distance', v) = DistanceOf(distance, v) =>
                    PreviousOf(previous', v) = PreviousOf(previous, v)]_vars

\* a run of A* has expanded B a second time, with the smaller distance B
\* got over C, and has given D, whose previous node is B, a smaller
\* distance
C20_Witness ==
    /\ pc = "loop" /\ kind = "a_star" /\ source = "A" /\ sink = "D"
    /\ graph = ReopenGraph
    /\ previous = [C |-> "A", B |-> "C", D |-> "B"]
    /\ distance = [A |-> 0, B |-> 0, C |-> 0, D |-> 0]
    /\ <<2 + heuristic["D"], "D">> \in Q

\* the heuristic never drops by more than the weight along an edge
EdgeConsistent(g, h) ==
    \A u \in DOMAIN g : \A e \in g[u] : h[u] <= e[1] + h[e[2]]

\* the searches C21 is about: Dijkstra, and A* under a consistent heuristic
OrderedSearch ==
    \/ kind = "dijkstra"
    \/ kind = "a_star" /\ EdgeConsistent(graph, heuristic)

\* the distances a node was accepted at
AcceptedAt(n) == {p[2] : p \in {q \in stats.accepted : q[1] = n}}

(***************************************************************************)
(* C21: in a Dijkstra search, and in an A* search under a consistent       *)
(* heuristic, no node is accepted (expanded from a fresh entry) twice, and *)
(* the pop of a stale entry only takes the entry out of the queue: no      *)
(* distance, no predecessor and no count of relaxations or insertions      *)
(* changes, and the loop goes on.                                          *)
(***************************************************************************)
C21_AcceptedOnce ==
    /\ [](OrderedSearch => \A n \in DOMAIN distance : Cardinality(AcceptedAt(n)) <= 1)
    /\ [][(OrderedSearch /\ pc = "loop") =>
            \A e \in Q \ Q' :
                Stale(kind, heuristic, distance, e) =>
                    /\ Q' = Q \ {e}
                    /\ distance' = distance
                    /\ previous' = previous
                    /\ stats' = stats
                    /\ pc' = pc]_vars

\* an A* search under a consistent heuristic that is not zero has emptied
\* its queue, and one of the entries it popped was stale: more entries were
\* inserted than nodes accepted
C21_Witness ==
    /\ kind = "a_star" /\ EdgeConsistent(graph, heuristic)
    /\ \E v \in DOMAIN graph : heuristic[v] > 0
    /\ pc = "loop"
    /\ Q = {}
    /\ stats.inserted > Cardinality(stats.accepted)

\* the number of edges of a graph, parallel edges counted
RECURSIVE EdgeCount(_, _)
EdgeCount(g, V) ==
    IF V = {} THEN 0
    ELSE LET v == CHOOSE x \in V : TRUE
         IN  Cardinality(g[v]) + EdgeCount(g, V \ {v})

\* the stale entries of the queue
StaleEntries == {e \in Q : Stale(kind, heuristic, distance, e)}

(***************************************************************************)
(* C22: at every point of a Dijkstra or A* search the entries inserted     *)
(* into the queue so far are at most 1 + the successful relaxations so     *)
(* far, the stale entries in the queue at most the relaxations, and in a   *)
(* Dijkstra search the relaxations at most the edges of the graph.         *)
(***************************************************************************)
C22_InsertionsBounded ==
    (kind \in {"dijkstra", "a_star"} /\ pc # "idle") =>
        /\ stats.inserted <= 1 + stats.relaxations
        /\ Cardinality(StaleEntries) <= stats.relaxations
        /\ kind = "dijkstra" => stats.relaxations <= EdgeCount(graph, DOMAIN graph)

\* a Dijkstra search has relaxed every edge of a graph of MaxEdges edges
\* once, each relaxation inserted an entry, and a stale entry waits in Q
C22_Witness ==
    /\ kind = "dijkstra" /\ pc = "loop"
    /\ EdgeCount(graph, DOMAIN graph) = MaxEdges
    /\ stats.relaxations = MaxEdges
    /\ stats.inserted = 1 + MaxEdges
    /\ StaleEntries # {}

\* no item of the list is less than the one at position 0 (here 1)
TopIsLeast(h) == \A i \in DOMAIN h : ~Less(h[i], h[1])

(***************************************************************************)
(* C23: after every heappush, heappop and heappushpop of any sequence, and *)
(* after every heappushpop of top_k_heaped, the list has the heap property *)
(* and no item of it is less than the one at position 0; in top_k_heaped   *)
(* that item is a retained e-mail of the least importance.                 *)
(***************************************************************************)
C23_HeapProperty ==
    /\ IsHeap(heap)
    /\ TopIsLeast(heap)
    /\ kind = "top_k_heaped" =>
        /\ IsHeap(top_set)
        /\ TopIsLeast(top_set)
        /\ \A i \in DOMAIN top_set : top_set[1][1] <= top_set[i][1]

\* top_k_heaped(2) has read three e-mails of growing importance: the first
\* has been pushed out by the third, and the second is at position 0
C23_Witness ==
    /\ kind = "top_k_heaped" /\ pc = "mails"
    /\ position = 3
    /\ emails[1][1] < emails[2][1] /\ emails[2][1] < emails[3][1]
    /\ top_set = <<emails[2], emails[3]>>

\* two lists hold the same items, each as often in one as in the other
SameItems(a, b) ==
    \A y \in Range(a) \cup Range(b) : Count(a, y) = Count(b, y)

Recorded == {v \in DOMAIN distance : distance[v] < Inf}

\* the previous links followed from v back to the source
BackFrom(v) == WalkBack(previous, source, v, <<v>>, 1)

(***************************************************************************)
(* C25: in every state of a search of Dijkstra or of A* under any          *)
(* heuristic, the nodes with a previous node are the nodes with a recorded *)
(* distance except the source; the previous links from each of them lead   *)
(* to the source without passing a node twice; and the distance of each is *)
(* at least the distance of its previous node plus the weight of an edge   *)
(* from that node to it.                                                   *)
(***************************************************************************)
C25_PredecessorTree ==
    (kind \in {"dijkstra", "a_star"} /\ pc # "idle") =>
        /\ DOMAIN previous = Recorded \ {source}
        /\ \A v \in DOMAIN previous :
            /\ BackFrom(v).status = "ok"
            /\ Cardinality(Range(BackFrom(v).path)) = Len(BackFrom(v).path)
            /\ previous[v] \in Recorded
            /\ \E w \in EdgeWeights(graph, previous[v], v) :
                    distance[v] >= distance[previous[v]] + w

\* A* has expanded B, which gave D its distance 2, and has then improved B
\* over C: the distance of D is now above the one of its previous node B
\* plus the weight 0 of the edge from B
C25_Witness ==
    /\ kind = "a_star" /\ pc = "loop" /\ graph = ReopenGraph
    /\ previous = [C |-> "A", B |-> "C", D |-> "B"]
    /\ distance = [A |-> 0, B |-> 0, C |-> 0, D |-> 2]

\* the entry a node is in the queue with when its distance is d
EntryOf(v, d) == <<Priority(kind, heuristic, v, d), v>>

(***************************************************************************)
(* C26: in every state of a running search of Dijkstra or of A*, every     *)
(* node whose recorded distance it has not been expanded at, from a fresh  *)
(* entry, has an entry in the queue with the priority of that distance     *)
(* (the distance, in A* plus the heuristic); so when the queue is empty    *)
(* every node has been expanded at its recorded distance.                  *)
(***************************************************************************)
C26_ImprovementQueued ==
    (kind \in {"dijkstra", "a_star"} /\ pc = "loop") =>
        /\ \A v \in Recorded :
                \/ <<v, distance[v]>> \in stats.accepted
                \/ EntryOf(v, distance[v]) \in Q
        /\ Q = {} => \A v \in Recorded : <<v, distance[v]>> \in stats.accepted

\* A* has expanded B at distance 2 and has then improved it to 0 over C: B
\* is back in the queue with the priority of its new distance
C26_Witness ==
    /\ kind = "a_star" /\ pc = "loop" /\ graph = ReopenGraph
    /\ <<"B", 2>> \in stats.accepted
    /\ <<"B", 0>> \notin stats.accepted
    /\ distance["B"] = 0
    /\ EntryOf("B", 0) \in Q

\* the total weights of the paths from u to t that visit no node of seen,
\* any of the parallel edges taken between two nodes
RECURSIVE WeightsTo(_, _, _, _)
WeightsTo(g, u, t, seen) ==
    IF u = t THEN {0}
    ELSE UNION {{e[1] + w : w \in WeightsTo(g, e[2], t, seen \cup {e[2]})}
                : e \in {x \in Neighbors(g, u) : x[2] \notin seen}}

(***************************************************************************)
(* C27: in every state of a search of Dijkstra or of A* under any          *)
(* heuristic, the state after an early stop included, every recorded       *)
(* distance of a node is the total weight of a path from the source to     *)
(* that node in the graph, and so at least the shortest distance from the  *)
(* source to it.                                                           *)
(***************************************************************************)
C27_DistanceOfPath ==
    (kind \in {"dijkstra", "a_star"} /\ pc # "idle") =>
        \A v \in Recorded :
            /\ distance[v] \in WeightsTo(graph, source, v, {source})
            /\ distance[v] >= TrueDist(graph, source, v)

\* Dijkstra has stopped at its sink while another node still has the
\* weight of a path that is not a shortest one
C27_Witness ==
    /\ kind = "dijkstra" /\ pc = "break"
    /\ \E v \in Recorded : distance[v] > TrueDist(graph, source, v)

=============================================================================
